---- MODULE Spec2Model ----
(***************************************************************************)
(* Model of the meeting resolution logic of join-zoom (zoom-alfred.py):    *)
(* get_zoom_link, parse_event_datetime, parse_events/augment,              *)
(* find_meeting_to_join and command_list.                                  *)
(*                                                                         *)
(* Python values are modelled as follows.                                  *)
(*   - str            : a TLA+ string (Len, SubSeq and \o act on it).      *)
(*   - Optional[x]    : <<>> for None, <<x>> for a value.                  *)
(*   - dict key       : a record field holding <<>> when the key is        *)
(*                      missing and <<v>> when it is present.              *)
(*   - datetime       : an integer number of minutes; all instants are     *)
(*                      timezone-aware, as the Google API delivers them.   *)
(*   - call outcome   : Return(v) or Raise(exception name).                *)
(***************************************************************************)
EXTENDS Integers, Sequences, FiniteSets, TLC

VARIABLES pc, now, format, event, raw_events, events, ret

vars == <<pc, now, format, event, raw_events, events, ret>>

-----------------------------------------------------------------------------
(* Bounds of the model. *)

\* Instants range over 0..MaxTime minutes.
MaxTime == 3
\* A location is a concatenation of at most MaxFrags fragments.
MaxFrags == 3
\* conferenceData.entryPoints holds at most MaxEps entries.
MaxEps == 2
\* find_meeting_to_join is called directly with at most MaxMeetings meetings.
MaxMeetings == 3
\* The calendar returns at most MaxEvents events to command_list.
MaxEvents == 2

(* Program constants. *)

\* constants.py: hours of calendar fetched ahead of now.
HOURS_AHEAD == 9
\* constants.py: number of events fetched at most.
NUM_NEXT == 5
\* constants.py: JOINABLE_IF_NEXT_STARTS_WITHIN (minutes).
JOINABLE_IF_NEXT_STARTS_WITHIN == 3

\* The provider domain marker tested with `"zoom.us" in ...`.
Marker == "zoom.us"

-----------------------------------------------------------------------------
(* Python values. *)

None == <<>>
Some(v) == <<v>>

Return(v) == [raised |-> FALSE, exc |-> "", value |-> <<v>>]
Raise(e) == [raised |-> TRUE, exc |-> e, value |-> <<>>]
NotReturned == [raised |-> FALSE, exc |-> "", value |-> <<>>]

\* Python `sub in s` on strings.
Contains(s, sub) ==
    \E i \in 1..(Len(s) - Len(sub) + 1) : SubSeq(s, i, i + Len(sub) - 1) = sub

\* Python s.startswith(p).
StartsWith(s, p) == Len(s) >= Len(p) /\ SubSeq(s, 1, Len(p)) = p

\* Python s.split(sep) for a one-character separator: the pieces between
\* consecutive cuts, where the cuts are the positions of sep, 0 and
\* Len(s) + 1.
split(s, sep) ==
    LET cuts == {0, Len(s) + 1} \cup {i \in 1..Len(s) : SubSeq(s, i, i) = sep}
        cut[k \in 1..Cardinality(cuts)] ==
            CHOOSE c \in cuts : Cardinality({d \in cuts : d < c}) = k - 1
    IN [k \in 1..(Cardinality(cuts) - 1) |->
            SubSeq(s, cut[k] + 1, cut[k + 1] - 1)]

Min(S) == CHOOSE x \in S : \A y \in S : x <= y

\* dict.get(key, default) on a field that holds <<>> or <<v>>.
Get(field, default) == IF field = <<>> THEN default ELSE field[1]

-----------------------------------------------------------------------------
(* get_zoom_link *)

\* `"zoom.us" in ep.get("uri", "")` for one entry point.
EntryMatches(ep) == Contains(Get(ep.uri, ""), Marker)

\* event.get("conferenceData", {}).get("entryPoints", [])
EntryPoints(ev) ==
    IF ev.conferenceData = <<>> THEN <<>>
    ELSE Get(ev.conferenceData[1].entryPoints, <<>>)

\* get_zoom_link looking at the entry points before the location.
get_zoom_link_EntryPointsFirst(ev) ==
    LET loc == Get(ev.location, "")
        eps == EntryPoints(ev)
        hits == {i \in 1..Len(eps) : EntryMatches(eps[i])}
    IN IF hits # {}
       THEN Return(Some(eps[Min(hits)].uri[1]))
       ELSE IF Contains(loc, Marker)
       THEN IF Contains(loc, ",")
            THEN LET segs == split(loc, ",")
                     lhits == {i \in 1..Len(segs) : Contains(segs[i], Marker)}
                 IN Return(Some(segs[Min(lhits)]))
            ELSE Return(Some(loc))
       ELSE IF eps # <<>> THEN Raise("StopIteration")
       ELSE Return(None)

get_zoom_link(ev) ==
    LET loc == Get(ev.location, "")
        eps == EntryPoints(ev)
    IN IF Contains(loc, Marker)
       THEN IF Contains(loc, ",")
            THEN LET segs == split(loc, ",")
                     hits == {i \in 1..Len(segs) : Contains(segs[i], Marker)}
                 IN IF hits = {} THEN Raise("StopIteration")
                    ELSE Return(Some(segs[Min(hits)]))
            ELSE Return(Some(loc))
       ELSE IF eps # <<>>
            THEN LET hits == {i \in 1..Len(eps) : EntryMatches(eps[i])}
                 IN IF hits = {} THEN Raise("StopIteration")
                    ELSE LET found == eps[Min(hits)]
                         \* `if found:` an entry-point dict is truthy when it
                         \* has a key; the model's entries hold only "uri".
                         IN IF found.uri # <<>>
                            THEN Return(Some(found.uri[1]))
                            ELSE Return(None)
            ELSE Return(None)

-----------------------------------------------------------------------------
(* Raw temporal values.  The string held under "dateTime" or "date" is     *)
(* abstracted to what datetime.fromisoformat makes of it: an ISO string    *)
(* denoting instant t, or a string it rejects with ValueError.             *)

IsoDateTime(t) == [fmt |-> "dateTime", t |-> t]
\* A date-only ISO string parses to midnight, before every modelled instant.
IsoDate == [fmt |-> "date", t |-> 0]
Garbage == [fmt |-> "garbage", t |-> 0]

\* datetime.fromisoformat(x): x is None (TypeError), rejected (ValueError)
\* or parsed.
fromisoformat(x) ==
    IF x = None THEN Raise("TypeError")
    ELSE IF x[1].fmt = "garbage" THEN Raise("ValueError")
    ELSE Return(x[1].t)

parse_event_datetime(d) ==
    LET datetime_or_date == IF d.dateTime # <<>> THEN d.dateTime ELSE d.date
        parsed == fromisoformat(datetime_or_date)
    IN IF parsed.raised THEN None ELSE Some(parsed.value[1])

\* zoom.is_not_day_only: the start marker is a precise instant, not a
\* whole-day date.
is_not_day_only(ev) == ev.start.dateTime # <<>>

\* zoom.convert_to_zoom_protocol: scheme substitution into the form the
\* conferencing client launches.
convert_to_zoom_protocol(link) ==
    IF StartsWith(link, "https://")
    THEN "zoommtg://" \o SubSeq(link, Len("https://") + 1, Len(link))
    ELSE link

-----------------------------------------------------------------------------
(* parse_events *)

Icon(summary) ==
    IF Contains(summary, "1:1") THEN "one.png"
    ELSE IF Contains(summary, "Standup") THEN "standup.png"
    ELSE "icon.png"

\* in_progress computed without looking at is_not_day.
InProgress_AnyEvent(is_not_day, start, end, t) ==
    IF start = None THEN Raise("TypeError")
    ELSE IF ~(start[1] <= t) THEN Return(FALSE)
    ELSE IF end = None THEN Raise("TypeError")
    ELSE Return(end[1] >= t)

\* Line 172, `is_not_day and start <= args.now and end >= args.now`: the
\* operands are evaluated left to right up to the first false one, and a
\* comparison of None with a datetime raises TypeError.
InProgress(is_not_day, start, end, t) ==
    IF ~is_not_day THEN Return(FALSE)
    ELSE IF start = None THEN Raise("TypeError")
    ELSE IF ~(start[1] <= t) THEN Return(FALSE)
    ELSE IF end = None THEN Raise("TypeError")
    ELSE Return(end[1] >= t)

\* is_next_joinable as "starts within the window of now", on either side
\* and whether or not the meeting is in progress.
IsNextJoinable_EitherSide(is_not_day, in_progress, start, t) ==
    IF is_not_day
    THEN IF start = None THEN Raise("TypeError")
         ELSE Return(/\ start[1] - t < JOINABLE_IF_NEXT_STARTS_WITHIN
                     /\ t - start[1] < JOINABLE_IF_NEXT_STARTS_WITHIN)
    ELSE Return(FALSE)

\* Lines 173-176.
IsNextJoinable(is_not_day, in_progress, start, t) ==
    IF is_not_day /\ ~in_progress
    THEN IF start = None THEN Raise("TypeError")
         ELSE IF start[1] > t
              THEN Return(start[1] - t < JOINABLE_IF_NEXT_STARTS_WITHIN)
              ELSE Return(FALSE)
    ELSE Return(FALSE)

\* Lines 172-176: both flags, or the exception a comparison raised.
FlagsJoinable(in_progress, is_next_joinable) ==
    IF is_next_joinable.raised THEN is_next_joinable
    ELSE Return([in_progress |-> in_progress,
                 is_next_joinable |-> is_next_joinable.value[1]])

FlagsInProgress(is_not_day, start, t, in_progress) ==
    IF in_progress.raised THEN in_progress
    ELSE FlagsJoinable(in_progress.value[1],
                       IsNextJoinable(is_not_day, in_progress.value[1], start, t))

Flags(is_not_day, start, end, t) ==
    FlagsInProgress(is_not_day, start, t, InProgress(is_not_day, start, end, t))

\* Lines 180-183: `if link:` None and "" are falsy.
ZoomLink(link) ==
    IF link # None /\ link[1] # ""
    THEN Some(convert_to_zoom_protocol(link[1]))
    ELSE None

\* Lines 178-202, given what lines 169-176 computed (flags) and what
\* get_zoom_link did (link); an exception of either leaves the call, that
\* of the flags first.
MyEvent(ev, start, is_not_day, flags, link) ==
    IF flags.raised THEN flags
    ELSE IF link.raised THEN link
    ELSE Return([id |-> ev.id,
                 start |-> start,
                 summary |-> ev.summary,
                 is_not_day_event |-> is_not_day,
                 zoom_link |-> ZoomLink(link.value[1]),
                 in_progress |-> flags.value[1].in_progress,
                 is_next_joinable |-> flags.value[1].is_next_joinable,
                 icon |-> Icon(ev.summary)])

\* event["end"] raises KeyError when the key is missing (line 170).
augment(ev, t) ==
    IF ev.end = <<>> THEN Raise("KeyError")
    ELSE MyEvent(ev,
                 parse_event_datetime(ev.start),
                 is_not_day_only(ev),
                 Flags(is_not_day_only(ev),
                       parse_event_datetime(ev.start),
                       parse_event_datetime(ev.end[1]), t),
                 get_zoom_link(ev))

\* list(...) of the mapped results: the first exception ends the call.
Collected(results) ==
    LET bad == {i \in DOMAIN results : results[i].raised}
    IN IF bad # {} THEN results[Min(bad)]
       ELSE Return([i \in DOMAIN results |-> results[i].value[1]])

parse_events(evs, t) == Collected([i \in 1..Len(evs) |-> augment(evs[i], t)])

-----------------------------------------------------------------------------
(* find_meeting_to_join and command_list *)

\* [e for e in seq if ...]: the elements of seq at the indices in I, in
\* their order.
Select(seq, I) ==
    LET F[i \in 0..Len(seq)] ==
            IF i = 0 THEN <<>>
            ELSE IF i \in I THEN Append(F[i - 1], seq[i]) ELSE F[i - 1]
    IN F[Len(seq)]

\* Indices of the meetings with in_progress, and with is_next_joinable.
Active(evs) == {i \in 1..Len(evs) : evs[i].in_progress}
Imminent(evs) == {i \in 1..Len(evs) : evs[i].is_next_joinable}

\* find_meeting_to_join with the two tests in the other order.
find_meeting_to_join_InProgressFirst(evs) ==
    IF evs # <<>>
    THEN LET in_progress == Select(evs, Active(evs))
             next == Select(evs, Imminent(evs))
         IN IF Len(in_progress) = 1
            THEN <<"FoundNextMeeting", Some(in_progress[1])>>
            ELSE IF Len(next) = 1
            THEN <<"FoundNextMeeting", Some(next[1])>>
            ELSE <<"MultipleOptions", None>>
    ELSE <<"NoOptions", None>>

\* find_meeting_to_join without the in-progress test.
find_meeting_to_join_NextOnly(evs) ==
    IF evs # <<>>
    THEN LET next == Select(evs, Imminent(evs))
         IN IF Len(next) = 1
            THEN <<"FoundNextMeeting", Some(next[1])>>
            ELSE <<"MultipleOptions", None>>
    ELSE <<"NoOptions", None>>

\* find_meeting_to_join without the `if events:` guard.
find_meeting_to_join_NoGuard(evs) ==
    LET in_progress == Select(evs, Active(evs))
        next == Select(evs, Imminent(evs))
    IN IF Len(next) = 1
       THEN <<"FoundNextMeeting", Some(next[1])>>
       ELSE IF Len(in_progress) = 1
       THEN <<"FoundNextMeeting", Some(in_progress[1])>>
       ELSE <<"MultipleOptions", None>>

\* The returned tuple (NextMeetingOptions, Optional[MyEvent]).
find_meeting_to_join(evs) ==
    IF evs # <<>>
    THEN LET in_progress == Select(evs, Active(evs))
             next == Select(evs, Imminent(evs))
         IN IF Len(next) = 1
            THEN <<"FoundNextMeeting", Some(next[1])>>
            ELSE IF Len(in_progress) = 1
            THEN <<"FoundNextMeeting", Some(in_progress[1])>>
            ELSE <<"MultipleOptions", None>>
    ELSE <<"NoOptions", None>>

\* The filter of line 250 without the link test.
Listable_TimedOnly(e) == e.is_not_day_event

\* Line 250: `e.is_not_day_event and e.zoom_link`.
Listable(e) == e.is_not_day_event /\ e.zoom_link # None /\ e.zoom_link[1] # ""

\* Lines 256-266: the variables handed to the workflow, with to_join kept
\* beside them.
Variables(parsed, filtered_events, found) ==
    [events |-> parsed,
     filtered_events |-> filtered_events,
     next_meeting |-> Some(found[1]),
     to_join |-> found[2],
     zoom_link |-> IF found[2] # None THEN found[2][1].zoom_link ELSE None,
     title |-> IF found[2] # None THEN Some(found[2][1].summary) ELSE None,
     start |-> IF found[2] # None THEN found[2][1].start ELSE None]

\* Lines 252-276: only the alfred format looks for a meeting to join.
Output(parsed, filtered_events, fmt) ==
    IF fmt = "alfred"
    THEN Variables(parsed, filtered_events,
                   find_meeting_to_join(filtered_events))
    ELSE [events |-> parsed,
          filtered_events |-> filtered_events,
          next_meeting |-> None,
          to_join |-> None,
          zoom_link |-> None,
          title |-> None,
          start |-> None]

\* Line 250.
FilteredEvents(parsed) ==
    Select(parsed, {i \in 1..Len(parsed) : Listable(parsed[i])})

\* Lines 246-276, given what parse_events returned or raised.
ListParsed(parsed, fmt) ==
    IF parsed.raised THEN parsed
    ELSE Return(Output(parsed.value[1], FilteredEvents(parsed.value[1]), fmt))

\* command_list after fetch_events: the local variables at its end.
command_list(evs, t, fmt) == ListParsed(parse_events(evs, t), fmt)

-----------------------------------------------------------------------------
(* Inputs. *)

Times == 0..MaxTime

\* Sequences over S of length at most n.
SeqUpTo(S, n) == UNION {[1..k -> S] : k \in 0..n}

\* The concatenation of the strings of fs.
Concat(fs) ==
    LET C[i \in 0..Len(fs)] == IF i = 0 THEN "" ELSE C[i - 1] \o fs[i]
    IN C[Len(fs)]

\* Pieces a location string is made of: an address, a link, the separator,
\* and the two halves of the marker.
Fragments == {"123 Main St", "https://zoom.us/j/111", ",", "zoom", ".us"}

LocationStrings == {Concat(fs) : fs \in SeqUpTo(Fragments, MaxFrags)}

Entries == {[uri |-> <<>>],
            [uri |-> <<"https://meet.google.com/abc">>],
            [uri |-> <<"https://zoom.us/j/222">>],
            [uri |-> <<"https://us02web.zoom.us/j/333">>]}

\* The "conferenceData" key: missing, present without "entryPoints", or
\* present with a list.
ConferenceData(n) ==
    {<<>>, <<[entryPoints |-> <<>>]>>}
        \cup {<<[entryPoints |-> <<eps>>]>> : eps \in SeqUpTo(Entries, n)}

Summaries == {"Sync", "1:1 Ana", "Standup"}

TimedDict(t) == [dateTime |-> <<IsoDateTime(t)>>, date |-> <<>>]
DayDict == [dateTime |-> <<>>, date |-> <<IsoDate>>]

\* A "start" or "end" dict: well-formed, unparseable, or without either key.
TimeDicts ==
    {TimedDict(t) : t \in Times}
        \cup {DayDict,
              [dateTime |-> <<Garbage>>, date |-> <<>>],
              [dateTime |-> <<>>, date |-> <<Garbage>>],
              [dateTime |-> <<>>, date |-> <<>>]}

\* Events given to get_zoom_link alone: every location and entry-point list.
LinkEvents ==
    [id : {"e1"}, summary : {"Sync"},
     start : {TimedDict(0)}, end : {<<TimedDict(1)>>},
     location : {<<>>} \cup {<<l>> : l \in LocationStrings},
     conferenceData : ConferenceData(MaxEps)]

\* Events given to augment alone: every start and end, the "end" key
\* missing included, with a few link shapes.
AugmentEvents ==
    [id : {"e1"}, summary : Summaries,
     start : TimeDicts, end : {<<>>} \cup {<<d>> : d \in TimeDicts},
     location : {<<>>, <<"Room 1">>, <<"https://zoom.us/j/111">>},
     conferenceData : {<<>>, <<[entryPoints |-> <<>>]>>}
        \cup {<<[entryPoints |-> <<<<e>>>>]>> : e \in Entries}]

\* MyEvent values given to find_meeting_to_join alone.  Only augment builds
\* a MyEvent, so in_progress and is_next_joinable are not both set, and the
\* start agrees with the flags at reference time t.
Meeting(i, f, t) ==
    [id |-> ToString(i),
     start |-> Some(IF f = "in_progress" THEN t
                    ELSE IF f = "is_next_joinable" THEN t + 1
                    ELSE t + JOINABLE_IF_NEXT_STARTS_WITHIN),
     summary |-> "Sync",
     is_not_day_event |-> TRUE,
     zoom_link |-> Some("zoommtg://zoom.us/j/111"),
     in_progress |-> f = "in_progress",
     is_next_joinable |-> f = "is_next_joinable",
     icon |-> "icon.png"]

MeetingLists(t) ==
    {[i \in 1..Len(fs) |-> Meeting(i, fs[i], t)] :
        fs \in SeqUpTo({"in_progress", "is_next_joinable", "neither"},
                       MaxMeetings)}

\* Link shapes of a fetched event: none, a link in the location, or only a
\* foreign entry point.
NoLink == [location |-> <<>>, conferenceData |-> <<>>]
LocationLink == [location |-> <<"https://zoom.us/j/111">>, conferenceData |-> <<>>]
ForeignEntry ==
    [location |-> <<>>,
     conferenceData |->
        <<[entryPoints |-> <<<<[uri |-> <<"https://meet.google.com/abc">>]>>>>]>>]

\* Events as the calendar returns them: timed with start <= end, or
\* whole-day.
FetchedShapes ==
    {[summary |-> "Sync", start |-> TimedDict(s), end |-> <<TimedDict(e)>>,
      location |-> k.location, conferenceData |-> k.conferenceData] :
        s \in Times, e \in Times, k \in {NoLink, LocationLink, ForeignEntry}}
    \cup
    {[summary |-> "Sync", start |-> DayDict, end |-> <<DayDict>>,
      location |-> k.location, conferenceData |-> k.conferenceData] :
        k \in {NoLink, LocationLink}}

StartOf(e) == parse_event_datetime(e.start)[1]
EndOf(e) == parse_event_datetime(e.end[1])[1]

\* fetch_events, lines 80-91: timeMin = now bounds the end of an event from
\* below and timeMax = now + HOURS_AHEAD its start from above (both
\* exclusive); a whole-day event covers the day of now.
InWindow(e, t) ==
    \/ ~is_not_day_only(e)
    \/ /\ StartOf(e) <= EndOf(e)
       /\ EndOf(e) > t
       /\ StartOf(e) < t + HOURS_AHEAD * 60

Smaller(a, b) == IF a <= b THEN a ELSE b

\* fetch_events: at most NUM_NEXT single events, ordered by start time.
FetchedLists(t) ==
    {[i \in 1..Len(l) |->
        [id |-> ToString(i), summary |-> l[i].summary, start |-> l[i].start,
         end |-> l[i].end, location |-> l[i].location,
         conferenceData |-> l[i].conferenceData]] :
      l \in {l \in SeqUpTo({e \in FetchedShapes : InWindow(e, t)},
                           Smaller(MaxEvents, NUM_NEXT)) :
                \A i \in 1..(Len(l) - 1) : StartOf(l[i]) <= StartOf(l[i + 1])}}

NoEvent == CHOOSE e \in LinkEvents : TRUE

-----------------------------------------------------------------------------
(* The state machine: pc names the function about to be called, then      *)
(* "done"; ret holds what the call returned or raised.                    *)

Init ==
    /\ now \in Times
    /\ ret = NotReturned
    /\ \/ /\ pc = "get_zoom_link"
          /\ event \in LinkEvents
          /\ now = 0 /\ format = "stdout"
          /\ raw_events = <<>> /\ events = <<>>
       \/ /\ pc = "augment"
          /\ event \in AugmentEvents
          /\ format = "stdout"
          /\ raw_events = <<>> /\ events = <<>>
       \/ /\ pc = "find_meeting_to_join"
          /\ events \in MeetingLists(now)
          /\ format \in {"stdout", "alfred"}
          /\ event = NoEvent /\ raw_events = <<>>
       \/ /\ pc = "command_list"
          /\ raw_events \in FetchedLists(now)
          /\ format \in {"stdout", "alfred"}
          /\ event = NoEvent /\ events = <<>>

GetZoomLink ==
    /\ pc = "get_zoom_link"
    /\ ret' = get_zoom_link(event)
    /\ pc' = "get_zoom_link_done"
    /\ UNCHANGED <<now, format, event, raw_events, events>>

Augment ==
    /\ pc = "augment"
    /\ ret' = augment(event, now)
    /\ pc' = "augment_done"
    /\ UNCHANGED <<now, format, event, raw_events, events>>

FindMeetingToJoin ==
    /\ pc = "find_meeting_to_join"
    /\ ret' = Return(find_meeting_to_join(events))
    /\ pc' = "find_meeting_to_join_done"
    /\ UNCHANGED <<now, format, event, raw_events, events>>

CommandList ==
    /\ pc = "command_list"
    /\ ret' = command_list(raw_events, now, format)
    /\ pc' = "command_list_done"
    /\ UNCHANGED <<now, format, event, raw_events, events>>

Next == GetZoomLink \/ Augment \/ FindMeetingToJoin \/ CommandList

Spec == Init /\ [][Next]_vars

-----------------------------------------------------------------------------
(* Properties of find_meeting_to_join. *)


Resolved == pc = "find_meeting_to_join_done"
Outcome == ret.value[1][1]
ToJoin == ret.value[1][2]

\* C1: when exactly one meeting of a non-empty list is imminently
\* joinable, the outcome is FoundNextMeeting with exactly that meeting,
\* however many meetings are in progress.
C1_OneImminentResolves ==
    (Resolved /\ events # <<>> /\ Cardinality(Imminent(events)) = 1)
        => \E i \in Imminent(events) :
               /\ Outcome = "FoundNextMeeting"
               /\ ToJoin = Some(events[i])

C1_Witness ==
    /\ Resolved
    /\ Cardinality(Imminent(events)) = 1
    /\ Cardinality(Active(events)) = 1
    /\ Outcome = "FoundNextMeeting"
    /\ ToJoin # None /\ ToJoin[1].is_next_joinable

\* C2: two or more imminently joinable meetings, or none imminent and two
\* or more in progress, give MultipleOptions and no meeting, for every
\* number of meetings in progress.
C2_TieIsAmbiguous ==
    (Resolved /\ (\/ Cardinality(Imminent(events)) >= 2
                  \/ /\ Cardinality(Imminent(events)) = 0
                     /\ Cardinality(Active(events)) >= 2))
        => (Outcome = "MultipleOptions" /\ ToJoin = None)

\* C3: with no imminently joinable meeting and exactly one meeting in
\* progress, the outcome is FoundNextMeeting with that meeting.
C3_OneActiveResolves ==
    (Resolved /\ Cardinality(Imminent(events)) = 0
              /\ Cardinality(Active(events)) = 1)
        => \E i \in Active(events) :
               /\ Outcome = "FoundNextMeeting"
               /\ ToJoin = Some(events[i])

C3_Witness ==
    /\ Resolved
    /\ Len(events) >= 2
    /\ Cardinality(Imminent(events)) = 0
    /\ Cardinality(Active(events)) = 1
    /\ Outcome = "FoundNextMeeting"
    /\ ToJoin # None /\ ToJoin[1].in_progress

\* C4: an empty list gives NoOptions and no meeting, at every reference
\* time.
C4_EmptyIsNoOptions ==
    (Resolved /\ events = <<>>) => (Outcome = "NoOptions" /\ ToJoin = None)

C4_Witness ==
    Resolved /\ events = <<>> /\ now = MaxTime /\ Outcome = "NoOptions"

-----------------------------------------------------------------------------
(* Properties of get_zoom_link. *)

Linked == pc = "get_zoom_link_done"
Location == Get(event.location, "")

\* seg is a comma-separated segment of s starting at position i.
SegmentAt(s, i, seg) ==
    /\ i \in 1..(Len(s) + 1)
    /\ i = 1 \/ SubSeq(s, i - 1, i - 1) = ","
    /\ SubSeq(s, i, i + Len(seg) - 1) = seg
    /\ i + Len(seg) - 1 <= Len(s)
    /\ i + Len(seg) - 1 = Len(s) \/ SubSeq(s, i + Len(seg), i + Len(seg)) = ","
    /\ ~Contains(seg, ",")

\* C6: a location without the marker and a non-empty entry-point list with
\* no entry whose URI contains the marker give None, without an exception.
C6_NoMatchingEntryIsAbsent ==
    (/\ Linked
     /\ ~Contains(Location, Marker)
     /\ EntryPoints(event) # <<>>
     /\ \A i \in 1..Len(EntryPoints(event)) : ~EntryMatches(EntryPoints(event)[i]))
        => ret = Return(None)

\* C9: a location that contains the marker decides the link, whatever the
\* entry points hold: the whole location when it has no comma, else the
\* first comma-separated segment that contains the marker.  Without a
\* match in the location, the URI of the first entry point that contains
\* the marker is returned.
C9_LocationBeforeEntryPoints ==
    Linked =>
      /\ (Contains(Location, Marker) /\ ~Contains(Location, ","))
            => ret = Return(Some(Location))
      /\ (Contains(Location, Marker) /\ Contains(Location, ","))
            => /\ ~ret.raised
               /\ ret.value[1] # None
               /\ Contains(ret.value[1][1], Marker)
               /\ \E i \in 1..(Len(Location) + 1) :
                      /\ SegmentAt(Location, i, ret.value[1][1])
                      /\ ~Contains(SubSeq(Location, 1, i - 1), Marker)
      /\ (~Contains(Location, Marker)
            /\ \E i \in 1..Len(EntryPoints(event)) :
                   EntryMatches(EntryPoints(event)[i]))
            => \E i \in 1..Len(EntryPoints(event)) :
                   /\ EntryMatches(EntryPoints(event)[i])
                   /\ \A j \in 1..(i - 1) : ~EntryMatches(EntryPoints(event)[j])
                   /\ ret = Return(Some(EntryPoints(event)[i].uri[1]))

\* A location with an address, a comma and a link, beside a matching entry
\* point with another URI: the link of the location is returned.
C9_Witness ==
    /\ Linked
    /\ Location = "123 Main St,https://zoom.us/j/111"
    /\ \E i \in 1..Len(EntryPoints(event)) : EntryMatches(EntryPoints(event)[i])
    /\ ret = Return(Some("https://zoom.us/j/111"))

-----------------------------------------------------------------------------
(* Properties of parse_events. *)

Normalized == pc = "augment_done"
Listed == pc = "command_list_done"

\* The event has an "end" key, and its start or end value cannot be parsed
\* (parse_event_datetime returns None).
MalformedDate(ev) ==
    /\ ev.end # <<>>
    /\ \/ parse_event_datetime(ev.start) = None
       \/ parse_event_datetime(ev.end[1]) = None

\* C5: an event whose start or end cannot be parsed is still normalized: a
\* record is returned, the unparseable start is None and both flags are
\* false.  (Stated for events whose link extraction does not raise, so
\* that only the date handling is judged.)
C5_MalformedDateDegrades ==
    (Normalized /\ MalformedDate(event) /\ ~get_zoom_link(event).raised)
        => /\ ~ret.raised
           /\ ret.value[1].start = parse_event_datetime(event.start)
           /\ ~ret.value[1].in_progress
           /\ ~ret.value[1].is_next_joinable

\* The meetings a finished call produced.
Produced ==
    IF ret.raised THEN {}
    ELSE IF Normalized THEN {ret.value[1]}
    ELSE IF Listed
    THEN {ret.value[1].events[i] : i \in 1..Len(ret.value[1].events)}
    ELSE {}

\* C7: no meeting produced by parse_events is both in progress and
\* imminently joinable.
C7_FlagsExclusive ==
    \A m \in Produced : ~(m.in_progress /\ m.is_next_joinable)

\* A timed meeting that starts exactly now: in progress, not joinable.
C7_Witness ==
    /\ Normalized /\ ~ret.raised
    /\ is_not_day_only(event)
    /\ ret.value[1].start = Some(now)
    /\ ret.value[1].in_progress
    /\ ~ret.value[1].is_next_joinable

\* The start marker of the event is date-only.
DateOnlyStart(ev) == ev.start.dateTime = <<>> /\ ev.start.date # <<>>

\* C8: the record of an event with a date-only start has is_not_day_event,
\* in_progress and is_next_joinable all false, whatever its other fields
\* and the reference time.
C8_DayEventsHaveNoFlags ==
    /\ (Normalized /\ ~ret.raised /\ DateOnlyStart(event))
          => /\ ~ret.value[1].is_not_day_event
             /\ ~ret.value[1].in_progress
             /\ ~ret.value[1].is_next_joinable
    /\ (Listed /\ ~ret.raised)
          => \A i \in 1..Len(raw_events) :
                 DateOnlyStart(raw_events[i])
                    => /\ ~ret.value[1].events[i].is_not_day_event
                       /\ ~ret.value[1].events[i].in_progress
                       /\ ~ret.value[1].events[i].is_next_joinable

\* A whole-day event whose parsed start and end enclose now.
C8_Witness ==
    /\ Normalized /\ ~ret.raised
    /\ DateOnlyStart(event)
    /\ parse_event_datetime(event.start) # None
    /\ parse_event_datetime(event.end[1]) # None
    /\ parse_event_datetime(event.start)[1] <= now
    /\ parse_event_datetime(event.end[1])[1] >= now
    /\ ~ret.value[1].in_progress

-----------------------------------------------------------------------------
(* Properties of the result of find_meeting_to_join and command_list. *)

\* What find_meeting_to_join returned for the list evs.
WellFormedResult(opt, m, evs) ==
    /\ (m # None) <=> (opt = "FoundNextMeeting")
    /\ m # None
          => /\ \E i \in 1..Len(evs) : evs[i] = m[1]
             /\ m[1].is_next_joinable \/ m[1].in_progress

\* C10: a meeting is returned exactly when the outcome is FoundNextMeeting;
\* it is an element of the input with is_next_joinable or in_progress set;
\* and the meeting command_list surfaces is timed and has a link.
C10_SurfacedMeetingIsJoinable ==
    /\ Resolved => WellFormedResult(Outcome, ToJoin, events)
    /\ (Listed /\ ~ret.raised /\ format = "alfred")
          => LET r == ret.value[1]
             IN /\ r.next_meeting # None
                /\ WellFormedResult(r.next_meeting[1], r.to_join,
                                    r.filtered_events)
                /\ r.to_join # None
                      => /\ r.to_join[1].is_not_day_event
                         /\ r.to_join[1].zoom_link # None
                         /\ r.to_join[1].zoom_link[1] # ""
                         /\ r.zoom_link = r.to_join[1].zoom_link
                /\ r.to_join = None => r.zoom_link = None

\* command_list surfaces a meeting although another timed meeting, in
\* progress and without a link, was fetched with it.
C10_Witness ==
    /\ Listed /\ ~ret.raised /\ format = "alfred"
    /\ ret.value[1].to_join # None
    /\ \E i \in 1..Len(ret.value[1].events) :
           /\ ret.value[1].events[i].in_progress
           /\ ret.value[1].events[i].zoom_link = None

====
